---- MODULE Spec2Model ----
(***************************************************************************)
(* Atulya AI orchestration core: the dynamic model loader                  *)
(* (src/Core/model_loader.py) and the intelligent agent's turn             *)
(* (src/Core/agent.py), with the server's model endpoints (src/main.py).   *)
(*                                                                         *)
(* Python values are modelled as follows.  None is the handle 0; a loaded  *)
(* model (a truthy dict) is a positive integer, the serial number of the   *)
(* construction that produced it, so two handles are the same object iff   *)
(* they are the same number.  A dict is a function whose DOMAIN is its key *)
(* set; a list is a sequence.                                              *)
(***************************************************************************)
EXTENDS Integers, Sequences, FiniteSets, TLC

\* ------------------------------------------------------------------ bounds

\* Factory constructions in one behaviour (handles are 1..MaxBuilds).
MaxBuilds == 3
\* Concurrent callers of the loader in SpecLoader.
MaxCallers == 2

\* ------------------------------------------------------- the model loader

None == 0

\* The main brain's model id: model_loader.py:55 ('deepseek-r1' default),
\* model_loader.py:389, agent.py:370, main.py:276.
MainBrain == "deepseek-r1"

\* Model ids the callers use: the main brain and the capability names that
\* agent.load_required_models passes to load_model (agent.py:349-356).
ModelNames == {MainBrain, "text", "vision"}

Callers == 1..MaxCallers

VARIABLES
    config,          \* the ids whose config entry has enabled: true
    loaded_models,   \* DynamicModelLoader.loaded_models: id -> handle
    main_brain,      \* DynamicModelLoader.main_brain: handle or None
    builds,          \* factory constructions so far (next handle = builds + 1)
    built,           \* per id: constructions by callers since the id was last released
    got,             \* per caller: what its last load_model call was for and returned
    last_op,         \* the loader operation that produced this state
    last_keep,       \* the keep_models argument of the last unload_unused_models
    pre_loaded,      \* the ids active right before the last loader operation
    last_call,       \* the load_model call that made this state, if one did
    task_response,   \* the main brain's answer to analyze_task's prompt
    task_plan        \* what parse_task_analysis made of it

taskVars == <<task_response, task_plan>>

\* The components beside the agent and the loader: the memory manager, the
\* configuration manager and the server's admin paths.
VARIABLES
    episodic_memory,  \* MemoryManager.episodic_memory, oldest interaction first
    semantic_memory,  \* MemoryManager.semantic_memory: topic -> count
    memory_file,      \* the "episodic" list in memory.json
    manager_config,   \* ConfigManager.config
    import_outcome,   \* the last import_config call and how it ended
    agent_available,  \* main.py's AGENT_AVAILABLE
    admin_log,        \* the process_admin_request calls the server has made
    http_status,      \* the status of the server's last answer
    service_calls     \* calls made on these components so far

serviceVars == <<episodic_memory, semantic_memory, memory_file, manager_config,
                 import_outcome, agent_available, admin_log, http_status,
                 service_calls>>

loaderVars == <<config, loaded_models, main_brain, builds, built, got,
                last_op, last_keep, pre_loaded, last_call, taskVars, serviceVars>>

VARIABLES
    pc,               \* where the turn is
    via,              \* how the plan came in: "process_input" or "execute_plan"
    response,         \* plan_response, the main brain's planning text
    plan,             \* the plan (analysis_result)
    required_models,  \* load_required_models' result: capability -> handle
    idx,              \* position of the next entry of execution_steps
    execution_results \* execute_plan's execution_results

VARIABLES
    user_input,            \* what kind of value process_input was given
    conversation_history,  \* self.conversation_history, oldest entry first
    store_outcome,         \* how the write to the memory store went
    recent_history,        \* analyze_and_plan's recent_history of this turn
    turn_result            \* what process_input returned

sessionVars == <<user_input, conversation_history, store_outcome, recent_history,
                 turn_result>>

turnVars == <<pc, via, response, plan, required_models, idx, execution_results,
              sessionVars>>

Active(lm) == DOMAIN lm

\* dict assignment  d[k] = v
DictSet(d, k, v) == [x \in (DOMAIN d) \cup {k} |-> IF x = k THEN v ELSE d[x]]

\* del d[k] for every k in ks
DictDel(d, ks) == [x \in (DOMAIN d) \ ks |-> d[x]]

\* load_model, lines 173-175: the cached branch.
LoadModelCached(lm, m) == m \in DOMAIN lm

\* load_model, lines 178-181: a model whose config entry is missing or not
\* enabled is refused before any construction.
LoadModelConstructs(lm, cfg, m) == ~LoadModelCached(lm, m) /\ m \in cfg

\* A load_model that takes no notice of the cached entry (force_reload as the
\* default).
LoadModelNoCache(lm, cfg, m, ok, h) ==
    IF m \notin cfg THEN [loaded |-> lm, ret |-> None]
    ELSE IF ok THEN [loaded |-> DictSet(lm, m, h), ret |-> h]
    ELSE [loaded |-> lm, ret |-> None]

\* A load_model without the "if model:" test of line 210: whatever the
\* constructor gave is stored.
LoadModelStoresAny(lm, cfg, m, ok, h) ==
    IF LoadModelCached(lm, m) THEN [loaded |-> lm, ret |-> lm[m]]
    ELSE IF m \notin cfg THEN [loaded |-> lm, ret |-> None]
    ELSE IF ok THEN [loaded |-> DictSet(lm, m, h), ret |-> h]
    ELSE [loaded |-> DictSet(lm, m, None), ret |-> None]

\* load_model, lines 173-218, without force_reload.  ok is the outcome of the
\* load_*_model constructor (each returns a dict or None, never raises); h is
\* the handle a successful construction produces.  The result is the loaded
\* dict after the call and the returned value.
LoadModel(lm, cfg, m, ok, h) ==
    IF LoadModelCached(lm, m) THEN [loaded |-> lm, ret |-> lm[m]]
    ELSE IF m \notin cfg THEN [loaded |-> lm, ret |-> None]
    ELSE IF ok THEN [loaded |-> DictSet(lm, m, h), ret |-> h]
    ELSE [loaded |-> lm, ret |-> None]

\* The branch of load_model a call takes: the cached return (line 175), the
\* disabled return (line 181), a construction that gave None or one that gave
\* a model (lines 210-214).
LoadOutcome(lm, cfg, m, ok) ==
    IF LoadModelCached(lm, m) THEN "cached"
    ELSE IF m \notin cfg THEN "disabled"
    ELSE IF ok THEN "built"
    ELSE "failed"

NoTaskResponse == [tokens |-> <<>>, words |-> {}]

NoTaskPlan ==
    [primary_capability |-> "", additional_capabilities |-> <<>>,
     reasoning |-> "", confidence |-> ""]

NoLoad == [caller |-> 0, model |-> "", ret |-> None, outcome |-> ""]

\* A keep list taken as given, empty or not.
EffectiveKeepAsGiven(keep) == keep

\* unload_unused_models, line 389: keep_models or ["deepseek-r1"].
EffectiveKeep(keep) == IF keep = {} THEN {MainBrain} ELSE keep

\* A slip in the membership test of line 393: the kept ids are the ones unloaded.
ToUnloadKept(lm, keep) == {m \in DOMAIN lm : m \in EffectiveKeep(keep)}

\* unload_unused_models, lines 391-394.
ToUnload(lm, keep) == {m \in DOMAIN lm : m \notin EffectiveKeep(keep)}

\* An unload that drops every model, kept or not.
UnloadEverything(lm, keep) == DictDel(lm, DOMAIN lm)

\* unload_unused_models, lines 387-398: the loaded dict after the call.  An
\* empty keep stands for both None and the empty list.
UnloadUnusedModels(lm, keep) == DictDel(lm, ToUnload(lm, keep))

\* The ids the loader's own default keeps resident (line 389, "Always keep
\* main brain").
HardPinned == {MainBrain}

NoCall == [model |-> "", handle |-> None]

\* MemoryManager.__init__, memory.py:18-23: nothing remembered yet.
MemoryAtRest ==
    /\ episodic_memory = <<>>
    /\ semantic_memory = <<>>
    /\ memory_file = <<>>

\* The configuration manager with nothing imported.
ConfigAtRest ==
    /\ manager_config = <<>>
    /\ import_outcome = [data |-> <<>>, ended |-> ""]

\* The server with no request answered.
ServerAtRest ==
    /\ agent_available = TRUE
    /\ admin_log = <<>>
    /\ http_status = 0

\* The components before any call is made on them.
ServiceInit ==
    /\ MemoryAtRest
    /\ ConfigAtRest
    /\ ServerAtRest
    /\ service_calls = 0

\* __init__, lines 31-39, and initialize_main_brain, lines 52-59: the main
\* brain is loaded through load_model; it ends up active iff it is enabled
\* and its construction succeeds.
LoaderInit ==
    /\ config \in SUBSET ModelNames
    /\ \E ok \in BOOLEAN :
         LET r == LoadModel(<<>>, config, MainBrain, ok, 1) IN
         /\ loaded_models = r.loaded
         /\ main_brain = r.ret
         /\ builds = IF LoadModelConstructs(<<>>, config, MainBrain) THEN 1 ELSE 0
    /\ built = [m \in ModelNames |-> 0]
    /\ got = [c \in Callers |-> NoCall]
    /\ last_op = "init"
    /\ last_keep = {}
    /\ pre_loaded = {}
    /\ last_call = NoLoad
    /\ task_response = NoTaskResponse
    /\ task_plan = NoTaskPlan
    /\ ServiceInit

\* A caller (a request handler or a turn, each a coroutine of the one event
\* loop) calls load_model(m): main.py:242, model_loader.py:450-452.  The call
\* is synchronous, so it is one atomic step.
LoadModelCall(c, m, ok) ==
    /\ LoadModelConstructs(loaded_models, config, m) => builds < MaxBuilds
    /\ LET r == LoadModel(loaded_models, config, m, ok, builds + 1) IN
       /\ loaded_models' = r.loaded
       /\ got' = [got EXCEPT ![c] = [model |-> m, handle |-> r.ret]]
    /\ builds' = IF LoadModelConstructs(loaded_models, config, m)
                 THEN builds + 1 ELSE builds
    /\ built' = IF LoadModelConstructs(loaded_models, config, m)
                THEN [built EXCEPT ![m] = @ + 1] ELSE built
    /\ last_op' = "load"
    /\ pre_loaded' = Active(loaded_models)
    /\ last_call' = [caller |-> c, model |-> m,
                     ret |-> LoadModel(loaded_models, config, m, ok, builds + 1).ret,
                     outcome |-> LoadOutcome(loaded_models, config, m, ok)]
    /\ UNCHANGED <<config, main_brain, last_keep, taskVars, serviceVars, turnVars>>

\* get_system_status, model_loader.py:404-413: "main_brain_active".
MainBrainActive == main_brain # None

\* An unload that lets go of the main-brain handle when its model goes.
UnloadModelsCallClearsMainBrain(keep) ==
    /\ loaded_models' = UnloadUnusedModels(loaded_models, EffectiveKeep(keep))
    /\ main_brain' = IF MainBrain \in Active(loaded_models') THEN main_brain ELSE None
    /\ built' = [m \in ModelNames |->
                   IF m \in Active(loaded_models') THEN built[m] ELSE 0]
    /\ got' = [c \in Callers |->
                 IF got[c].model \in Active(loaded_models') THEN got[c] ELSE NoCall]
    /\ last_op' = "unload"
    /\ last_keep' = keep
    /\ pre_loaded' = Active(loaded_models)
    /\ last_call' = NoLoad
    /\ UNCHANGED <<config, builds, taskVars, serviceVars, turnVars>>

\* POST /models/unload, main.py:265-283, calling unload_unused_models
\* (model_loader.py:387-398) with keep_models or ["deepseek-r1"].
UnloadModelsCall(keep) ==
    /\ loaded_models' = UnloadUnusedModels(loaded_models, EffectiveKeep(keep))
    /\ built' = [m \in ModelNames |->
                   IF m \in Active(loaded_models') THEN built[m] ELSE 0]
    /\ got' = [c \in Callers |->
                 IF got[c].model \in Active(loaded_models') THEN got[c] ELSE NoCall]
    /\ last_op' = "unload"
    /\ last_keep' = keep
    /\ pre_loaded' = Active(loaded_models)
    /\ last_call' = NoLoad
    /\ UNCHANGED <<config, main_brain, builds, taskVars, serviceVars, turnVars>>


\* --------------------------------------------------------- plans and steps

\* More bounds: steps in a plan, tokens in the main brain's planning text.
MaxSteps == 2
MaxTextLen == 4

\* A key the decoded object does not have (dict.get then gives its default).
Missing == "<missing>"
NoTool == "<none>"

StepIds == {1, 2}
\* The depends_on lists of the plans considered: none, or one step id.
DependsOnSets == {{}} \cup {{i} : i \in StepIds}
Capabilities == {"text", "vision"}
ToolIds == {"web_search"}

\* step.get("step", 0), agent.py:226: the step number of an entry that has
\* no "step" key.
DefaultStepNumber == 0

\* The tool registry the agent holds (agent.py:58): the names get_tool
\* answers with a callable, of which some cannot be awaited or raise when
\* called (agent.py:283); any other name gives None (agent.py:47-48).
RegisteredTools == {"web_search", "read_file"}
RaisingTools == {"read_file"}
PlanToolIds == RegisteredTools \cup {"unknown_tool"}

\* An entry of execution_steps: a dict with the keys of the planning prompt
\* (agent.py:142-148), or a JSON value that is no dict (a number, a string).
DictSteps ==
    [kind : {"dict"}, step : StepIds, action : {"do"},
     capability : Capabilities, tool : ToolIds \cup {NoTool},
     depends_on : DependsOnSets]

ScalarStep ==
    [kind |-> "scalar", step |-> 0, action |-> "", capability |-> "",
     tool |-> NoTool, depends_on |-> {}]

StepEntries == DictSteps \cup {ScalarStep}

StepSeqs == UNION {[1..n -> StepEntries] : n \in 0..MaxSteps}

\* create_fallback_plan, agent.py:416-439.
FallbackPlan ==
    [intent |-> "Respond to user request",
     complexity |-> "simple",
     primary_capability |-> "text",
     additional_capabilities |-> <<>>,
     execution_steps |->
        <<[kind |-> "dict", step |-> 1, action |-> "Generate helpful response",
           capability |-> "text", tool |-> NoTool, depends_on |-> {}]>>,
     confidence |-> "0.5",
     json_ok |-> TRUE]

\* json.loads("{}"): the empty dict.
EmptyPlan ==
    [intent |-> Missing, complexity |-> Missing, primary_capability |-> Missing,
     additional_capabilities |-> <<>>, execution_steps |-> <<>>,
     confidence |-> Missing, json_ok |-> TRUE]

\* The objects a well-formed member list may denote.  json_ok says that
\* json.dumps accepts the plan; whatever json.loads returns has it.
Bodies ==
    [intent : {Missing, "goal"},
     complexity : {"simple", "complex"},
     primary_capability : Capabilities,
     additional_capabilities : {<<>>},
     execution_steps : StepSeqs,
     confidence : {"0.95"},
     json_ok : {TRUE}]

\* Plans a direct caller of execute_plan may pass: any dict, also one that
\* holds a value json.dumps rejects (a datetime, a set) under a top-level key.
DirectPlans ==
    [intent : {"goal"},
     complexity : {"simple"},
     primary_capability : Capabilities,
     additional_capabilities : {<<>>},
     execution_steps : StepSeqs,
     confidence : {"0.95"},
     json_ok : {FALSE}]

\* Entries whose "step" key may be missing and whose tool may be any name,
\* registered or not.
ToolSteps ==
    [kind : {"dict"}, step : {DefaultStepNumber} \cup StepIds, action : {"do"},
     capability : Capabilities, tool : PlanToolIds \cup {NoTool},
     depends_on : {{}}]

ToolStepSeqs == UNION {[1..n -> ToolSteps \cup {ScalarStep}] : n \in 0..MaxSteps}

\* Plans of such entries, as parse_execution_plan returns them.
ToolPlans ==
    [intent : {"goal"},
     complexity : {"simple"},
     primary_capability : Capabilities,
     additional_capabilities : {<<>>},
     execution_steps : ToolStepSeqs,
     confidence : {"0.95"},
     json_ok : {TRUE}]

\* A value json.dumps rejects (a set, a datetime, an object).
Unserializable == "<object>"

\* Entries a direct caller of execute_plan may pass: the action may be such
\* a value.
DirectToolSteps ==
    [kind : {"dict"}, step : StepIds, action : {"do", Unserializable},
     capability : Capabilities, tool : {NoTool, "web_search"},
     depends_on : {{}}]

\* The plans of such entries; json.dumps accepts the plan when it accepts
\* every entry.
DirectToolPlans ==
    {[intent |-> "goal", complexity |-> "simple", primary_capability |-> c,
      additional_capabilities |-> <<>>, execution_steps |-> steps,
      confidence |-> "0.95",
      json_ok |-> \A i \in 1..Len(steps) : steps[i].action # Unserializable] :
        c \in Capabilities,
        steps \in UNION {[1..n -> DirectToolSteps] : n \in 0..MaxSteps}}

\* ------------------------------------------------------------ plan parsing

\* The planning text, token by token: a brace, prose without braces ("w"),
\* or a well-formed JSON member list ("m", whose meaning is the payload).
Tokens == {"{", "}", "w", "m"}
Texts == UNION {[1..n -> Tokens] : n \in 0..MaxTextLen}

Positions(s, t) == {i \in 1..Len(s) : s[i] = t}
Min(S) == CHOOSE x \in S : \A y \in S : x <= y
Max(S) == CHOOSE x \in S : \A y \in S : x >= y

\* re.search(r'\{.*\}', response, re.DOTALL), agent.py:407: the leftmost "{"
\* that has a "}" after it, and greedily up to the last "}".
HasMatch(s) ==
    /\ Positions(s, "{") # {}
    /\ Positions(s, "}") # {}
    /\ Min(Positions(s, "{")) < Max(Positions(s, "}"))

MatchGroup(s) == SubSeq(s, Min(Positions(s, "{")), Max(Positions(s, "}")))

\* json.loads, agent.py:409: the text decodes iff it is one object.
JsonDecodes(g) == g = <<"{", "m", "}">> \/ g = <<"{", "}">>

\* A parser that returns the payload without noticing that the match did not
\* decode.
ParseOutcomeUnchecked(s) ==
    IF HasMatch(s)
    THEN (IF MatchGroup(s) = <<"{", "}">> THEN "empty" ELSE "payload")
    ELSE "fallback"

\* parse_execution_plan, agent.py:405-414, which way it goes on a text: no
\* match or a decode error gives the fallback plan; otherwise the decoded
\* object is returned as it is, the empty dict or the payload.
ParseOutcome(s) ==
    IF HasMatch(s) /\ JsonDecodes(MatchGroup(s))
    THEN (IF MatchGroup(s) = <<"{", "}">> THEN "empty" ELSE "payload")
    ELSE "fallback"

\* parse_execution_plan, agent.py:409, 411, 414: the value returned.
ParseValue(outcome, payload) ==
    CASE outcome = "payload" -> payload
      [] outcome = "empty" -> EmptyPlan
      [] outcome = "fallback" -> FallbackPlan

\* parse_execution_plan, agent.py:403-414.
ParseExecutionPlan(s, payload) == ParseValue(ParseOutcome(s), payload)

\* The payload matters only to a text whose match decodes through it.
PayloadsOf(outcome) == IF outcome = "payload" THEN Bodies ELSE {EmptyPlan}

\* ----------------------------------------------------------------- a turn

\* execute_plan, agent.py:178-185.
NewResults ==
    [steps_completed |-> <<>>, models_used |-> {}, tools_used |-> <<>>,
     response |-> "", success |-> TRUE, error |-> FALSE]

\* process_input has not returned.
NoResult == [success |-> FALSE, response |-> "", error |-> FALSE, returned |-> FALSE]

TurnInit ==
    /\ pc = "idle"
    /\ via = ""
    /\ response = <<>>
    /\ plan = EmptyPlan
    /\ required_models = <<>>
    /\ idx = 0
    /\ execution_results = NewResults
    /\ user_input = "str"
    /\ conversation_history = <<>>
    /\ store_outcome = ""
    /\ recent_history = <<>>
    /\ turn_result = NoResult

\* analyze_and_plan, agent.py:167-172: plan['intent'] raises KeyError on a
\* decoded object without that key, and the handler returns the fallback plan.
AnalyzeResult(p) == IF p.intent = Missing THEN FallbackPlan ELSE p

\* process_input, agent.py:69: the user id a caller gives, "default" when it
\* gives none.
DefaultUser == "default"
UserIds == {DefaultUser, "alice"}

\* process_input, agent.py:75-80: the entry appended for an input.
Entry(u, input) == [user_id |-> u, input |-> input]

\* The user of the turn: the one whose entry process_input appended last.
CurrentUser == conversation_history[Len(conversation_history)].user_id

\* agent.py:114: the number of entries of the history that planning reads.
HistoryCap == 5

\* A window that holds only what the turn's own user has said.
RecentHistoryOfUser(history, user_id) ==
    LET own == SelectSeq(history, LAMBDA e : e.user_id = user_id) IN
    SubSeq(own, Max({1, Len(own) - HistoryCap + 1}), Len(own))

\* analyze_and_plan, agent.py:114: self.conversation_history[-5:], whoever
\* the user of the turn is.
RecentHistory(history, user_id) ==
    SubSeq(history, Max({1, Len(history) - HistoryCap + 1}), Len(history))

\* The ways parse_execution_plan goes, over all planning texts.
ParseOutcomes == {ParseOutcome(s) : s \in Texts}

\* process_input, agent.py:83, with analyze_and_plan, agent.py:162-172: the
\* main brain answers the planning prompt with some text,
\* parse_execution_plan parses it and the plan is returned for execution.
AnalyzeAndPlan ==
    /\ pc = "idle"
    /\ \E outcome \in ParseOutcomes : \E payload \in PayloadsOf(outcome) :
         plan' = AnalyzeResult(ParseValue(outcome, payload))
    /\ pc' = "planned"
    /\ via' = "process_input"
    /\ recent_history' = RecentHistory(conversation_history, DefaultUser)
    /\ UNCHANGED <<response, required_models, idx, execution_results, loaderVars>>
    /\ UNCHANGED <<user_input, conversation_history, store_outcome, turn_result>>

\* parse_execution_plan(response), agent.py:403-414, called on a given text.
ParseCall ==
    /\ pc = "text"
    /\ \E payload \in PayloadsOf(ParseOutcome(response)) :
         plan' = ParseExecutionPlan(response, payload)
    /\ pc' = "parsed"
    /\ UNCHANGED <<via, response, required_models, idx, execution_results, loaderVars>>
    /\ UNCHANGED sessionVars

\* execute_plan called by another caller than process_input, with its own plan.
ExecutePlanCall ==
    /\ pc = "idle"
    /\ \E p \in DirectPlans : plan' = p
    /\ pc' = "planned"
    /\ via' = "execute_plan"
    /\ response' = <<>>
    /\ UNCHANGED <<required_models, idx, execution_results, loaderVars>>
    /\ UNCHANGED sessionVars

\* load_required_models, agent.py:349-350 and the filter of line 354.
RequiredCapabilities(p) ==
    SelectSeq(<<p.primary_capability>> \o p.additional_capabilities,
              LAMBDA c : c # Missing /\ c # "tools")

\* execute_plan, agent.py:178-190, with load_required_models, agent.py:341-362:
\* one load_model call for the primary capability (the plans here name no
\* additional ones); a model that comes back None is left out.
LoadRequiredModelsAt(at, ok) ==
    /\ pc = at
    /\ LET caps == RequiredCapabilities(plan)
           m == IF caps = <<>> THEN "" ELSE caps[1]
           r == IF caps = <<>> THEN [loaded |-> loaded_models, ret |-> None]
                ELSE LoadModel(loaded_models, config, m, ok, builds + 1)
           constructs == caps # <<>> /\ LoadModelConstructs(loaded_models, config, m)
       IN
       /\ loaded_models' = r.loaded
       /\ required_models' = IF r.ret # None THEN DictSet(<<>>, m, r.ret) ELSE <<>>
       /\ builds' = IF constructs THEN builds + 1 ELSE builds
       /\ built' = IF constructs THEN [built EXCEPT ![m] = @ + 1] ELSE built
       /\ execution_results' =
            [NewResults EXCEPT !.models_used = DOMAIN required_models']
       /\ last_op' = IF caps = <<>> THEN last_op ELSE "load"
       /\ pre_loaded' = IF caps = <<>> THEN pre_loaded ELSE Active(loaded_models)
       /\ last_call' = IF caps = <<>> THEN last_call
                       ELSE [caller |-> 0, model |-> m, ret |-> r.ret,
                             outcome |-> LoadOutcome(loaded_models, config, m, ok)]
    /\ idx' = 1
    /\ pc' = "steps"
    /\ UNCHANGED <<via, response, plan, config, main_brain, got, last_keep, taskVars,
                   serviceVars>>
    /\ UNCHANGED sessionVars

LoadRequiredModels(ok) == LoadRequiredModelsAt("planned", ok)

\* load_required_models, agent.py:356, when the call has to construct the
\* model: load_model enters the load_*_model constructor
\* (model_loader.py:190-205), a blocking call into the model library that
\* nothing in the loader or the agent bounds in time.
NeedsConstruction ==
    /\ RequiredCapabilities(plan) # <<>>
    /\ LoadModelConstructs(loaded_models, config, RequiredCapabilities(plan)[1])

BeginConstruction ==
    /\ pc = "planned"
    /\ NeedsConstruction
    /\ pc' = "loading"
    /\ UNCHANGED <<via, response, plan, required_models, idx, execution_results,
                   sessionVars, loaderVars>>

\* The constructor returns, with a model or with None, and
\* load_required_models goes on.
ConstructorReturns == \E ok \in BOOLEAN : LoadRequiredModelsAt("loading", ok)

\* load_required_models when load_model returns without constructing.
LoadWithoutConstruction ==
    /\ ~NeedsConstruction
    /\ LoadRequiredModels(TRUE)

\* use_tool, agent.py:278-289: the tool's result as a string, "Tool ... not
\* found" or "Error using tool ...": on every path a string comes back and
\* nothing is raised.
UseTool(tool) ==
    IF tool \notin RegisteredTools THEN "Tool not found"
    ELSE IF tool \in RaisingTools THEN "Error using tool"
    ELSE "tool text"

\* process_vision, agent.py:291-301.
ProcessVision(model) ==
    IF model = None THEN "Vision capability not available"
    ELSE "Vision processing completed"

\* dict.get(key) on the models dict.
ModelsGet(models, k) == IF k \in DOMAIN models THEN models[k] ELSE None

\* process_with_main_brain, agent.py:336-339: json.dumps(context) raises on a
\* plan it cannot serialize; otherwise the main brain's text comes back.
MainBrainRaises(p) == ~p.json_ok

\* execute_step, agent.py:220-233 and 252-260: whether the entry can be
\* processed at all.  A non-dict entry has no .get: the try block raises and
\* the handler, which calls step.get again, raises too.
StepEscapes(step) == step.kind # "dict"

\* A step in which the exception of a tool goes on to execute_step's handler.
StepRaisesOnToolError(step, p) ==
    \/ (step.tool # NoTool /\ step.tool \in RaisingTools)
    \/ (step.tool = NoTool /\ step.capability # "vision" /\ MainBrainRaises(p))

\* execute_step, agent.py:234-248: whether the dispatched handler raises
\* inside the try block.
StepRaises(step, p) ==
    /\ step.tool = NoTool
    /\ step.capability # "vision"
    /\ MainBrainRaises(p)

\* execute_step, agent.py:216-260, for an entry it can process: the step
\* result it returns.
ExecuteStep(step, p, models, pos) ==
    IF StepRaises(step, p)
    THEN [pos |-> pos, step_number |-> step.step, success |-> FALSE,
          result |-> "", tool_used |-> NoTool, error |-> TRUE]
    ELSE [pos |-> pos, step_number |-> step.step, success |-> TRUE,
          result |-> IF step.tool # NoTool THEN UseTool(step.tool)
                     ELSE IF step.capability = "vision"
                          THEN ProcessVision(ModelsGet(models, "vision"))
                          ELSE "main brain text",
          tool_used |-> step.tool, error |-> FALSE]

\* A loop that passes over a vision step when no vision model was loaded, so
\* that the steps visited depend on the loader.
ExecuteNextStepSkipsUnavailable ==
    /\ pc = "steps"
    /\ idx <= Len(plan.execution_steps)
    /\ LET step == plan.execution_steps[idx] IN
       /\ IF StepEscapes(step)
          THEN /\ pc' = "except"
               /\ UNCHANGED <<idx, execution_results>>
          ELSE IF step.capability = "vision" /\ "vision" \notin DOMAIN required_models
          THEN /\ idx' = idx + 1
               /\ pc' = "steps"
               /\ UNCHANGED execution_results
          ELSE LET r == ExecuteStep(step, plan, required_models, idx) IN
               /\ execution_results' =
                    [execution_results EXCEPT
                       !.steps_completed = Append(@, r),
                       !.tools_used = IF r.tool_used # NoTool
                                      THEN Append(@, r.tool_used) ELSE @]
               /\ idx' = idx + 1
               /\ pc' = "steps"
    /\ UNCHANGED <<via, response, plan, required_models, loaderVars>>
    /\ UNCHANGED sessionVars

\* A loop that writes into the plan that a step of it was done.
ExecuteNextStepMarksPlan(at) ==
    /\ pc = at
    /\ idx <= Len(plan.execution_steps)
    /\ ~StepEscapes(plan.execution_steps[idx])
    /\ LET r == ExecuteStep(plan.execution_steps[idx], plan, required_models, idx) IN
       execution_results' =
            [execution_results EXCEPT
               !.steps_completed = Append(@, r),
               !.tools_used = IF r.tool_used # NoTool
                              THEN Append(@, r.tool_used) ELSE @]
    /\ plan' = [plan EXCEPT !.execution_steps[idx].action = "done"]
    /\ idx' = idx + 1
    /\ pc' = "steps"
    /\ UNCHANGED <<via, response, required_models, loaderVars>>
    /\ UNCHANGED sessionVars

\* execute_plan, agent.py:193-198: one iteration of the loop over
\* plan["execution_steps"], in list order, entered in one piece ("steps") or
\* resumed when the tool's awaitable is done ("awaiting").
ExecuteNextStepAt(at) ==
    /\ pc = at
    /\ idx <= Len(plan.execution_steps)
    /\ LET step == plan.execution_steps[idx] IN
       /\ IF StepEscapes(step)
          THEN /\ pc' = "except"
               /\ UNCHANGED <<idx, execution_results>>
          ELSE LET r == ExecuteStep(step, plan, required_models, idx) IN
               /\ execution_results' =
                    [execution_results EXCEPT
                       !.steps_completed = Append(@, r),
                       !.tools_used = IF r.tool_used # NoTool
                                      THEN Append(@, r.tool_used) ELSE @]
               /\ idx' = idx + 1
               /\ pc' = "steps"
    /\ UNCHANGED <<via, response, plan, required_models, loaderVars>>
    /\ UNCHANGED sessionVars

ExecuteNextStep == ExecuteNextStepAt("steps")

\* use_tool, agent.py:283: the turn awaits what a registered tool returned;
\* when that awaitable is not done yet the coroutine is suspended and the
\* event loop runs the coroutines of other turns and requests.
BeginToolAwait ==
    /\ pc = "steps"
    /\ idx <= Len(plan.execution_steps)
    /\ plan.execution_steps[idx].kind = "dict"
    /\ plan.execution_steps[idx].tool \in RegisteredTools \ RaisingTools
    /\ pc' = "awaiting"
    /\ UNCHANGED <<via, response, plan, required_models, idx, execution_results,
                   sessionVars, loaderVars>>

\* The awaitable is done: execute_step goes on and returns the step result.
ToolReturns == ExecuteNextStepAt("awaiting")

\* generate_final_response, agent.py:392: json.dumps of the step results,
\* each of which holds its step's action (agent.py:227, 256), raises when it
\* meets a value it rejects.
SynthesisRaises(results, p) ==
    \E k \in 1..Len(results.steps_completed) :
        p.execution_steps[results.steps_completed[k].pos].action = Unserializable

\* execute_plan, agent.py:200-202, with generate_final_response,
\* agent.py:381-397: the main brain's reply to the synthesis prompt.
GenerateFinalResponse ==
    /\ pc = "steps"
    /\ idx > Len(plan.execution_steps)
    /\ IF SynthesisRaises(execution_results, plan)
       THEN /\ pc' = "except"
            /\ UNCHANGED execution_results
       ELSE /\ execution_results' =
                 [execution_results EXCEPT !.response = "final response"]
            /\ pc' = "cleanup"
    /\ UNCHANGED <<via, response, plan, required_models, idx, loaderVars>>
    /\ UNCHANGED sessionVars

\* cleanup_models, agent.py:369-374.
KeepModels(p) ==
    {MainBrain} \cup (IF p.complexity = "complex" THEN {"embedding", "text"} ELSE {})

\* execute_plan, agent.py:204-207, with cleanup_models, agent.py:364-379.
CleanupModels ==
    /\ pc = "cleanup"
    /\ loaded_models' = UnloadUnusedModels(loaded_models, KeepModels(plan))
    /\ built' = [m \in ModelNames |->
                   IF m \in Active(loaded_models') THEN built[m] ELSE 0]
    /\ got' = [c \in Callers |->
                 IF got[c].model \in Active(loaded_models') THEN got[c] ELSE NoCall]
    /\ last_op' = "unload"
    /\ last_keep' = KeepModels(plan)
    /\ pre_loaded' = Active(loaded_models)
    /\ last_call' = NoLoad
    /\ pc' = "executed"
    /\ UNCHANGED <<via, response, plan, required_models, idx, execution_results,
                   config, main_brain, builds, taskVars, serviceVars>>
    /\ UNCHANGED sessionVars

\* While the turn is suspended, another turn's load_required_models calls
\* load_model (agent.py:356), or a request does (main.py:242).  While the
\* turn is running, also inside a constructor, the event loop runs nothing
\* else: none of the calls of the agent and the loader hands a
\* construction to a thread or an executor.
OtherTurnLoads(c, m, ok) ==
    /\ pc = "awaiting"
    /\ LoadModelCall(c, m, ok)

\* While the turn is suspended, another turn's cleanup_models calls
\* unload_unused_models with its keep list (agent.py:370-377).
OtherTurnReleases(p) ==
    /\ pc = "awaiting"
    /\ UnloadModelsCall(KeepModels(p))

\* get_fallback_response, agent.py:399-401: user_input[:50] raises on a value
\* that cannot be sliced.
FallbackResponseRaises(input) == input = "none"

\* A handler that starts the record afresh.
ExecutePlanExceptDropsResults ==
    /\ pc = "except"
    /\ execution_results' =
         [NewResults EXCEPT !.success = FALSE, !.error = TRUE,
                            !.response = "fallback response"]
    /\ pc' = "executed"
    /\ UNCHANGED <<via, response, plan, required_models, idx, loaderVars>>
    /\ UNCHANGED sessionVars

\* execute_plan, agent.py:209-214: the handler of whatever escaped the body.
\* When get_fallback_response raises in it, the exception goes on to
\* process_input.
ExecutePlanExcept ==
    /\ pc = "except"
    /\ IF FallbackResponseRaises(user_input)
       THEN /\ execution_results' =
                 [execution_results EXCEPT !.success = FALSE, !.error = TRUE]
            /\ pc' = "apology"
       ELSE /\ execution_results' =
                 [execution_results EXCEPT
                    !.success = FALSE, !.error = TRUE, !.response = "fallback response"]
            /\ pc' = "executed"
    /\ UNCHANGED <<via, response, plan, required_models, idx, loaderVars>>
    /\ UNCHANGED sessionVars

\* process_input, agent.py:88-97: the interaction is stored and the turn's
\* result, carrying execute_plan's record, is returned.
TurnReturn ==
    /\ pc = "executed"
    /\ pc' = "returned"
    /\ UNCHANGED <<via, response, plan, required_models, idx, execution_results,
                   loaderVars>>
    /\ UNCHANGED sessionVars

\* The values process_input may be given: a str (all the server passes,
\* main.py:118-160), or from another caller a value json.dumps rejects (bytes)
\* or one that cannot be sliced (None).
InputKinds == {"str", "bytes", "none"}

\* process_input, agent.py:74-80: the input is appended to the history.
ReceiveInput ==
    /\ pc = "idle"
    /\ conversation_history' = Append(conversation_history, Entry(DefaultUser, user_input))
    /\ pc' = "received"
    /\ UNCHANGED <<via, response, plan, required_models, idx, execution_results,
                   user_input, store_outcome, recent_history, turn_result, loaderVars>>

\* Calls of process_input on one agent.
MaxHistory == 6

\* process_input, agent.py:69-80, called on the agent after an earlier call
\* has returned (main.py:135, agent.py:541-543): a new turn, whose input is
\* appended to the history the earlier turns left.
ProcessInputCall(u, input) ==
    /\ pc = "returned"
    /\ Len(conversation_history) < MaxHistory
    /\ user_input' = input
    /\ conversation_history' = Append(conversation_history, Entry(u, input))
    /\ store_outcome' = ""
    /\ recent_history' = <<>>
    /\ turn_result' = NoResult
    /\ via' = ""
    /\ response' = <<>>
    /\ plan' = EmptyPlan
    /\ required_models' = <<>>
    /\ idx' = 0
    /\ execution_results' = NewResults
    /\ pc' = "received"
    /\ UNCHANGED loaderVars

\* analyze_and_plan, agent.py:113-121: json.dumps of the recent history, which
\* holds the input, is outside the try block of line 162.
PlanningRaises(input) == input = "bytes"

\* process_input, agent.py:83, with analyze_and_plan, agent.py:108-172, as a
\* step of the whole turn: the plan, or the exception that goes to
\* process_input's handler.
PlanTurn ==
    /\ pc = "received"
    /\ IF PlanningRaises(user_input)
       THEN /\ pc' = "apology"
            /\ UNCHANGED <<plan, via>>
       ELSE /\ \E outcome \in ParseOutcomes : \E payload \in PayloadsOf(outcome) :
                 plan' = AnalyzeResult(ParseValue(outcome, payload))
            /\ pc' = "planned"
            /\ via' = "process_input"
    /\ recent_history' = RecentHistory(conversation_history, CurrentUser)
    /\ UNCHANGED <<response, required_models, idx, execution_results, loaderVars>>
    /\ UNCHANGED <<user_input, conversation_history, store_outcome, turn_result>>

\* A turn that records the interaction as soon as the plan is there, before
\* anything was executed.
StoreInteractionBeforeExecution ==
    /\ pc = "planned"
    /\ pc' = "recorded"
    /\ store_outcome' = "stored"
    /\ UNCHANGED <<via, response, plan, required_models, idx, execution_results,
                   user_input, conversation_history, recent_history, turn_result,
                   loaderVars>>

\* A turn to whose handler the failure of the write goes on.
StoreInteractionSurfacesFailure ==
    /\ pc = "executed"
    /\ \E ok \in BOOLEAN :
         /\ store_outcome' = IF ok THEN "stored" ELSE "failed"
         /\ pc' = IF ok THEN "recorded" ELSE "apology"
    /\ UNCHANGED <<via, response, plan, required_models, idx, execution_results,
                   user_input, conversation_history, recent_history, turn_result,
                   loaderVars>>

\* process_input, agent.py:88-89, with store_interaction, agent.py:460-477:
\* the write to the memory store (agent.py:473-474) goes through or raises,
\* and whatever is raised is logged and dropped (agent.py:476-477).
StoreInteraction ==
    /\ pc = "executed"
    /\ via = "process_input"
    /\ \E ok \in BOOLEAN : store_outcome' = IF ok THEN "stored" ELSE "failed"
    /\ pc' = "recorded"
    /\ UNCHANGED <<via, response, plan, required_models, idx, execution_results,
                   user_input, conversation_history, recent_history, turn_result,
                   loaderVars>>

\* A return that hands on execute_plan's success flag.
ReturnResultOfExecution ==
    /\ pc = "recorded"
    /\ turn_result' = [success |-> execution_results.success,
                       response |-> execution_results.response,
                       error |-> execution_results.error, returned |-> TRUE]
    /\ pc' = "returned"
    /\ UNCHANGED <<via, response, plan, required_models, idx, execution_results,
                   user_input, conversation_history, store_outcome, recent_history,
                   loaderVars>>

\* process_input, agent.py:91-97: the result of a turn that got through.
ReturnResult ==
    /\ pc = "recorded"
    /\ turn_result' = [success |-> TRUE, response |-> execution_results.response,
                       error |-> FALSE, returned |-> TRUE]
    /\ pc' = "returned"
    /\ UNCHANGED <<via, response, plan, required_models, idx, execution_results,
                   user_input, conversation_history, store_outcome, recent_history,
                   loaderVars>>

\* A handler that reports the error and says nothing to the user.
ApologyReturnSilent ==
    /\ pc = "apology"
    /\ turn_result' = [success |-> FALSE, response |-> "", error |-> TRUE,
                       returned |-> TRUE]
    /\ pc' = "returned"
    /\ UNCHANGED <<via, response, plan, required_models, idx, execution_results,
                   user_input, conversation_history, store_outcome, recent_history,
                   loaderVars>>

\* process_input, agent.py:99-106: the handler of whatever escaped the turn.
ApologyReturn ==
    /\ pc = "apology"
    /\ turn_result' = [success |-> FALSE, response |-> "apology", error |-> TRUE,
                       returned |-> TRUE]
    /\ pc' = "returned"
    /\ UNCHANGED <<via, response, plan, required_models, idx, execution_results,
                   user_input, conversation_history, store_outcome, recent_history,
                   loaderVars>>

\* ------------------------------------------------- keyword classification

\* Keywords of one text, tokens of a task response.
MaxKeywords == 2
MaxTaskTextLen == 3

\* fallback_parse, model_loader.py:149-157: the capabilities dict, in the
\* order of its keys.
CapabilityTable ==
    << [name |-> "vision",
        keywords |-> {"image", "photo", "picture", "visual", "see", "look"}],
       [name |-> "speech_input",
        keywords |-> {"speech", "voice", "audio", "listen", "hear"}],
       [name |-> "speech_output",
        keywords |-> {"speak", "say", "voice", "tts", "text to speech"}],
       [name |-> "video",
        keywords |-> {"video", "movie", "clip", "recording"}],
       [name |-> "document",
        keywords |-> {"pdf", "document", "file", "text", "extract"}],
       [name |-> "audio_generation",
        keywords |-> {"music", "sound", "audio", "generate", "create"}],
       [name |-> "embedding",
        keywords |-> {"search", "similar", "find", "memory"}] >>

Keywords == UNION {CapabilityTable[i].keywords : i \in 1..Len(CapabilityTable)}

\* The sets of at most n keywords.
RECURSIVE KeywordSets(_)
KeywordSets(n) ==
    IF n = 0 THEN {{}}
    ELSE LET less == KeywordSets(n - 1) IN
         less \cup {W \cup {kw} : W \in less, kw \in Keywords}

\* A task response: its brace structure, token by token, and the keywords
\* written in it.
TaskResponses ==
    [tokens : UNION {[1..n -> Tokens] : n \in 0..MaxTaskTextLen},
     words : KeywordSets(MaxKeywords)]

\* keyword in response_lower, model_loader.py:161: a substring test, so a
\* text that has "text to speech" has "text" and "speech" as well.
Occurs(words, kw) ==
    \/ kw \in words
    \/ (kw \in {"text", "speech"} /\ "text to speech" \in words)

\* fallback_parse, model_loader.py:159-162: the capabilities detected, in
\* table order.
Detected(words) ==
    LET hits == SelectSeq(CapabilityTable,
                          LAMBDA e : \E kw \in e.keywords : Occurs(words, kw))
    IN [i \in 1..Len(hits) |-> hits[i].name]

\* A classification that takes the last capability detected as the primary.
FallbackParseLastFirst(words) ==
    LET detected == Detected(words) IN
    [primary_capability |-> IF detected # <<>> THEN detected[Len(detected)] ELSE "text",
     additional_capabilities |->
        IF Len(detected) > 1 THEN SubSeq(detected, 1, Len(detected) - 1) ELSE <<>>,
     reasoning |-> "Keyword-based detection",
     confidence |-> IF detected # <<>> THEN "0.7" ELSE "0.3"]

\* fallback_parse, model_loader.py:145-169.
FallbackParse(words) ==
    LET detected == Detected(words) IN
    [primary_capability |-> IF detected # <<>> THEN detected[1] ELSE "text",
     additional_capabilities |-> IF Len(detected) > 1 THEN Tail(detected) ELSE <<>>,
     reasoning |-> "Keyword-based detection",
     confidence |-> IF detected # <<>> THEN "0.7" ELSE "0.3"]

\* What json.loads gives for a task response that holds one JSON object.
DecodedTaskPlan ==
    [primary_capability |-> "text", additional_capabilities |-> <<>>,
     reasoning |-> "decoded", confidence |-> "0.8"]

\* parse_task_analysis, model_loader.py:127-143: the decoded object, or
\* fallback_parse of the whole response when nothing matches or the match
\* does not decode.
ParseTaskAnalysis(r) ==
    IF HasMatch(r.tokens) /\ JsonDecodes(MatchGroup(r.tokens))
    THEN DecodedTaskPlan
    ELSE FallbackParse(r.words)

\* parse_task_analysis(response), called on a given response.
ParseTaskAnalysisCall ==
    /\ pc = "task"
    /\ task_plan' = ParseTaskAnalysis(task_response)
    /\ pc' = "classified"
    /\ UNCHANGED <<config, loaded_models, main_brain, builds, built, got, last_op,
                   last_keep, pre_loaded, last_call, task_response, serviceVars>>
    /\ UNCHANGED <<via, response, plan, required_models, idx, execution_results,
                   sessionVars>>

vars == <<loaderVars, turnVars>>

Init == LoaderInit /\ TurnInit

TurnNext ==
    \/ AnalyzeAndPlan
    \/ ExecutePlanCall
    \/ \E ok \in BOOLEAN : LoadRequiredModels(ok)
    \/ ExecuteNextStep
    \/ GenerateFinalResponse
    \/ CleanupModels
    \/ ExecutePlanExcept
    \/ TurnReturn

Next == TurnNext

\* A turn of the agent over the loader.
Spec == Init /\ [][Next]_vars

\* parse_execution_plan on every planning text; the loader plays no part.
ParseInit ==
    /\ config = ModelNames
    /\ loaded_models = <<>>
    /\ main_brain = None
    /\ builds = 0
    /\ built = [m \in ModelNames |-> 0]
    /\ got = [c \in Callers |-> NoCall]
    /\ last_op = "init"
    /\ last_keep = {}
    /\ pre_loaded = {}
    /\ last_call = NoLoad
    /\ task_response = NoTaskResponse
    /\ task_plan = NoTaskPlan
    /\ ServiceInit
    /\ pc = "text"
    /\ via = "parse_execution_plan"
    /\ response \in Texts
    /\ plan = EmptyPlan
    /\ required_models = <<>>
    /\ idx = 0
    /\ execution_results = NewResults
    /\ user_input = "str"
    /\ conversation_history = <<>>
    /\ store_outcome = ""
    /\ recent_history = <<>>
    /\ turn_result = NoResult

ParseNext == ParseCall

SpecParse == ParseInit /\ [][ParseNext]_vars



LoaderNext ==
    \/ \E c \in Callers, m \in ModelNames, ok \in BOOLEAN : LoadModelCall(c, m, ok)
    \/ \E keep \in SUBSET ModelNames : UnloadModelsCall(keep)

SpecLoader == Init /\ [][LoaderNext]_vars

\* parse_task_analysis on every task response.
ClassifyInit ==
    /\ config = ModelNames
    /\ loaded_models = <<>>
    /\ main_brain = None
    /\ builds = 0
    /\ built = [m \in ModelNames |-> 0]
    /\ got = [c \in Callers |-> NoCall]
    /\ last_op = "init"
    /\ last_keep = {}
    /\ pre_loaded = {}
    /\ last_call = NoLoad
    /\ task_response \in TaskResponses
    /\ task_plan = NoTaskPlan
    /\ ServiceInit
    /\ pc = "task"
    /\ via = "parse_task_analysis"
    /\ response = <<>>
    /\ plan = EmptyPlan
    /\ required_models = <<>>
    /\ idx = 0
    /\ execution_results = NewResults
    /\ user_input = "str"
    /\ conversation_history = <<>>
    /\ store_outcome = ""
    /\ recent_history = <<>>
    /\ turn_result = NoResult

ClassifyNext == ParseTaskAnalysisCall

SpecClassify == ClassifyInit /\ [][ClassifyNext]_vars

\* process_input called with an input of any kind.
ProcessInputInit ==
    /\ LoaderInit
    /\ pc = "idle"
    /\ via = ""
    /\ response = <<>>
    /\ plan = EmptyPlan
    /\ required_models = <<>>
    /\ idx = 0
    /\ execution_results = NewResults
    /\ user_input \in InputKinds
    /\ conversation_history = <<>>
    /\ store_outcome = ""
    /\ recent_history = <<>>
    /\ turn_result = NoResult

ProcessInputNext ==
    \/ ReceiveInput
    \/ PlanTurn
    \/ \E ok \in BOOLEAN : LoadRequiredModels(ok)
    \/ ExecuteNextStep
    \/ GenerateFinalResponse
    \/ CleanupModels
    \/ ExecutePlanExcept
    \/ StoreInteraction
    \/ ReturnResult
    \/ ApologyReturn

\* The steps the turn takes by itself, once the event loop runs it.
OwnSteps ==
    \/ ReceiveInput
    \/ PlanTurn
    \/ BeginConstruction
    \/ LoadWithoutConstruction
    \/ ExecuteNextStep
    \/ GenerateFinalResponse
    \/ CleanupModels
    \/ ExecutePlanExcept
    \/ StoreInteraction
    \/ ReturnResult
    \/ ApologyReturn

BlockingNext == OwnSteps \/ ConstructorReturns

\* A turn whose own steps are always taken in the end, while the external
\* constructor may or may not return.
SpecBlocking ==
    ProcessInputInit /\ [][BlockingNext]_vars /\ WF_vars(OwnSteps)

\* One whole turn, from process_input's call to its return.
SpecTurn == ProcessInputInit /\ [][ProcessInputNext]_vars

\* The inputs of InputKinds on which planning raises.
RejectedInputs == {input \in InputKinds : PlanningRaises(input)}

HistoryInit == ProcessInputInit /\ user_input \in RejectedInputs

HistoryNext ==
    \/ ReceiveInput
    \/ PlanTurn
    \/ ApologyReturn
    \/ \E u \in UserIds : \E input \in RejectedInputs : ProcessInputCall(u, input)

\* Turn after turn on one agent, each with an input that planning rejects,
\* so that the turn ends in process_input's handler.
SpecHistory == HistoryInit /\ [][HistoryNext]_vars

\* The loader after initialization with every model enabled and the main
\* brain built (model_loader.py:122-125), to which POST /models/load
\* (main.py:230-242) may have added the vision model.
LoadedAtStart ==
    LET started == LoadModel(<<>>, ModelNames, MainBrain, TRUE, 1).loaded IN
    {started, LoadModel(started, ModelNames, "vision", TRUE, 2).loaded}

\* process_input has appended a str input and analyze_and_plan has returned
\* a plan: execute_plan is about to be called on it (agent.py:86).  Or
\* another caller calls execute_plan on a plan of its own.
ExecutePlanInit ==
    /\ config = ModelNames
    /\ loaded_models \in LoadedAtStart
    /\ main_brain = loaded_models[MainBrain]
    /\ builds = Cardinality(Active(loaded_models))
    /\ built = [m \in ModelNames |-> 0]
    /\ got = [c \in Callers |-> NoCall]
    /\ last_op = "init"
    /\ last_keep = {}
    /\ pre_loaded = {}
    /\ last_call = NoLoad
    /\ task_response = NoTaskResponse
    /\ task_plan = NoTaskPlan
    /\ ServiceInit
    /\ pc = "planned"
    /\ via \in {"process_input", "execute_plan"}
    /\ response = <<>>
    /\ plan \in (IF via = "process_input" THEN ToolPlans ELSE DirectToolPlans)
    /\ required_models = <<>>
    /\ idx = 0
    /\ execution_results = NewResults
    /\ user_input = "str"
    /\ conversation_history = <<Entry(DefaultUser, "str")>>
    /\ store_outcome = ""
    /\ recent_history = RecentHistory(conversation_history, DefaultUser)
    /\ turn_result = NoResult

ExecutePlanNext ==
    \/ \E ok \in BOOLEAN : LoadRequiredModels(ok)
    \/ ExecuteNextStep
    \/ GenerateFinalResponse
    \/ CleanupModels
    \/ ExecutePlanExcept
    \/ StoreInteraction
    \/ ReturnResult

\* execute_plan on plans whose steps name tools, and the turn's return.
SpecTools == ExecutePlanInit /\ [][ExecutePlanNext]_vars

\* The plans another turn may be cleaning up after.
OtherPlans == {FallbackPlan, [FallbackPlan EXCEPT !.complexity = "complex"]}

ConcurrentNext ==
    \/ BeginConstruction
    \/ ConstructorReturns
    \/ LoadWithoutConstruction
    \/ ExecuteNextStep
    \/ BeginToolAwait
    \/ ToolReturns
    \/ \E c \in Callers : \E m \in ModelNames : \E ok \in BOOLEAN :
          OtherTurnLoads(c, m, ok)
    \/ \E p \in OtherPlans : OtherTurnReleases(p)
    \/ GenerateFinalResponse
    \/ CleanupModels
    \/ ExecutePlanExcept
    \/ StoreInteraction
    \/ ReturnResult

\* A turn executing its plan on the loader it shares with the other turns
\* and requests of the event loop.
SpecConcurrent == ExecutePlanInit /\ [][ConcurrentNext]_vars

\* ------------------------------------------------------ the memory manager

\* Calls of store_interaction followed.
MaxStores == 4

\* store_interaction, memory.py:85-86: the most interactions kept.
EpisodicCap == 1000

\* store_interaction, memory.py:92: a save every so many interactions.
SaveEvery == 10

\* The agent and the loader while another component is called: no model
\* loaded, no turn begun.
AtRest ==
    /\ config = ModelNames
    /\ loaded_models = <<>>
    /\ main_brain = None
    /\ builds = 0
    /\ built = [m \in ModelNames |-> 0]
    /\ got = [c \in Callers |-> NoCall]
    /\ last_op = "init"
    /\ last_keep = {}
    /\ pre_loaded = {}
    /\ last_call = NoLoad
    /\ task_response = NoTaskResponse
    /\ task_plan = NoTaskPlan
    /\ via = ""
    /\ response = <<>>
    /\ plan = EmptyPlan
    /\ required_models = <<>>
    /\ idx = 0
    /\ execution_results = NewResults
    /\ user_input = "str"
    /\ conversation_history = <<>>
    /\ store_outcome = ""
    /\ recent_history = <<>>
    /\ turn_result = NoResult

atRestVars == <<config, loaded_models, main_brain, builds, built, got, last_op,
                last_keep, pre_loaded, last_call, taskVars, via, response, plan,
                required_models, idx, execution_results, sessionVars>>

\* _extract_topics, memory.py:127-143: the common topics a message contains.
MemoryTopics == {"code", "file"}

\* Messages of interactions: two that contain a common topic each, one that
\* contains none.
Messages == {"code", "file", "hello"}

ExtractTopics(message) == {t \in MemoryTopics : t = message}

\* The interactions callers pass: dicts with a message, with or without a
\* timestamp.
Interactions == [message : Messages, timestamp : BOOLEAN]

\* store_interaction, memory.py:77-78: the timestamp is added when missing.
Stamped(interaction) == [interaction EXCEPT !.timestamp = TRUE]

\* The episodic list of a memory.json with n interactions; _load_memory,
\* memory.py:45-55, takes the list as it is, whatever its length.
LoadedMemory(n) == [i \in 1..n |-> [message |-> ToString(i), timestamp |-> TRUE]]

\* The lengths of the files followed: none, short ones, and ones at and over
\* the cap.
LoadedLengths == {0, SaveEvery - 2, EpisodicCap - 1, EpisodicCap, EpisodicCap + SaveEvery}

\* A trim that keeps the oldest interactions.
KeepFirst(memory, cap) ==
    IF Len(memory) > cap THEN SubSeq(memory, 1, cap) ELSE memory

\* store_interaction, memory.py:85-86: memory[-1000:] when it is longer.
KeepLast(memory, cap) ==
    IF Len(memory) > cap
    THEN SubSeq(memory, Len(memory) - cap + 1, Len(memory))
    ELSE memory

\* _extract_semantic_info, memory.py:97-124: the count of each topic of the
\* message goes up by one, a new topic starting at zero.
ExtractSemanticInfo(semantic, interaction) ==
    [t \in DOMAIN semantic \cup ExtractTopics(interaction.message) |->
        LET count == IF t \in DOMAIN semantic THEN semantic[t] ELSE 0 IN
        IF t \in ExtractTopics(interaction.message) THEN count + 1 ELSE count]

\* initialize, memory.py:25-43: memory.json is loaded when it exists.
MemoryInit ==
    /\ AtRest
    /\ pc = "memory"
    /\ \E n \in LoadedLengths :
         /\ episodic_memory = LoadedMemory(n)
         /\ memory_file = LoadedMemory(n)
    /\ semantic_memory = <<>>
    /\ ConfigAtRest
    /\ ServerAtRest
    /\ service_calls = 0

\* store_interaction, memory.py:73-95, on a dict: stamp, append, trim,
\* extract the topics, and save when the length is a multiple of ten;
\* _save_memory (memory.py:57-70) keeps a failure of the write to itself.
MemoryStoreInteraction(interaction, saved) ==
    /\ pc = "memory"
    /\ service_calls < MaxStores
    /\ episodic_memory' =
         KeepLast(Append(episodic_memory, Stamped(interaction)), EpisodicCap)
    /\ semantic_memory' = ExtractSemanticInfo(semantic_memory, interaction)
    /\ memory_file' = IF Len(episodic_memory') % SaveEvery = 0 /\ saved
                      THEN episodic_memory' ELSE memory_file
    /\ service_calls' = service_calls + 1
    /\ UNCHANGED <<manager_config, import_outcome, agent_available, admin_log,
                   http_status, pc, atRestVars>>

MemoryNext ==
    \E interaction \in Interactions, saved \in BOOLEAN :
        MemoryStoreInteraction(interaction, saved)

SpecMemory == MemoryInit /\ [][MemoryNext]_vars

\* ----------------------------------------------- the configuration manager

\* Calls of import_config followed.
MaxImports == 2

\* _validate_server, config_manager.py:196: the highest port.
MaxPort == 65535

\* A configuration is followed by three of its values: server.port,
\* memory.backend and logging.level, each with values its validator accepts
\* and one or two it rejects.
Configs ==
    [port : {0, 8000, 8080, MaxPort + 1},
     backend : {"chromadb", "sqlite", "files"},
     level : {"INFO", "LOUD"}]

\* _get_default_config, config_manager.py:91-154.
DefaultConfig == [port |-> 8000, backend |-> "chromadb", level |-> "INFO"]

\* _validate_server, config_manager.py:194-200.
ValidateServer(c) == 1 <= c.port /\ c.port <= MaxPort

\* _validate_memory, config_manager.py:202-206.
ValidateMemory(c) == c.backend \in {"chromadb", "sqlite", "redis"}

\* _validate_logging, config_manager.py:208-212.
ValidateLogging(c) == c.level \in {"DEBUG", "INFO", "WARNING", "ERROR", "CRITICAL"}

\* No validator raises on c.
ConfigPasses(c) == ValidateServer(c) /\ ValidateMemory(c) /\ ValidateLogging(c)

\* _validate_config, config_manager.py:168-180: self.config after it, given
\* self.config before it.  What a validator raises is caught here, and the
\* default configuration is put in place.
ValidateConfig(c) == IF ConfigPasses(c) THEN c ELSE DefaultConfig

\* What import_config is given: a dict, or a str that its decoder reads as
\* a configuration or rejects, and a format.
ImportData ==
    LET formats == {"json", "yaml", "xml"} IN
    [kind : {"dict"}, format : formats, decodes : {TRUE}, value : Configs]
        \cup [kind : {"str"}, format : formats, decodes : {TRUE}, value : Configs]
        \cup [kind : {"str"}, format : formats, decodes : {FALSE}, value : {DefaultConfig}]

\* import_config, config_manager.py:332-340: new_config gets a value.  A str
\* is decoded by json.loads or yaml.safe_load, which raise on a text they
\* cannot read; of another format the code raises ValueError itself.
Decodes(data) ==
    \/ data.kind = "dict"
    \/ data.format \in {"json", "yaml"} /\ data.decodes

\* __init__, config_manager.py:21-32: the loaded configuration has been
\* validated, so it passes or is the default one.
ConfigInit ==
    /\ AtRest
    /\ pc = "config"
    /\ MemoryAtRest
    /\ ServerAtRest
    /\ manager_config \in {ValidateConfig(c) : c \in Configs}
    /\ import_outcome = [data |-> <<>>, ended |-> ""]
    /\ service_calls = 0

\* import_config, config_manager.py:329-351.  old_config is bound at line
\* 343, after the decoding: when the decoding raises, the handler's
\* "self.config = old_config" (line 351) reads an unbound local and the
\* UnboundLocalError leaves the call.  Past line 343 nothing reaches the
\* handler: _validate_config raises nothing.
ImportConfig(data) ==
    /\ pc = "config"
    /\ service_calls < MaxImports
    /\ IF Decodes(data)
       THEN /\ manager_config' = ValidateConfig(data.value)
            /\ import_outcome' = [data |-> data, ended |-> "returned"]
       ELSE /\ manager_config' = manager_config
            /\ import_outcome' = [data |-> data, ended |-> "raised"]
    /\ service_calls' = service_calls + 1
    /\ UNCHANGED <<episodic_memory, semantic_memory, memory_file, agent_available,
                   admin_log, http_status, pc, atRestVars>>

ConfigNext == \E data \in ImportData : ImportConfig(data)

SpecConfig == ConfigInit /\ [][ConfigNext]_vars

\* ---------------------------------------------------- the server's admin paths

\* Requests followed.
MaxRequests == 3

\* verify_admin_access, main.py:387.
AdminUsers == {"admin", "system", "root"}

\* The user ids requests carry; AdminRequest.user_id is "admin" when the
\* body has none (main.py:62).
RequestUsers == {"admin", "system", "root", "default", "alice"}

\* verify_admin_access, main.py:382-388.
VerifyAdminAccess(user_id) == user_id \in AdminUsers

\* A call of IntelligentAgent.process_admin_request (agent.py:517-536) as
\* the server made it: from which path, with which request and user id, and
\* whether verify_admin_access had been passed on the way.
AdminCall(path, request, user_id, verified) ==
    [path |-> path, request |-> request, user_id |-> user_id, verified |-> verified]

\* startup: AGENT_AVAILABLE is what the import of the agent left it.
ServerInit ==
    /\ AtRest
    /\ pc = "serving"
    /\ MemoryAtRest
    /\ ConfigAtRest
    /\ agent_available \in BOOLEAN
    /\ admin_log = <<>>
    /\ http_status = 0
    /\ service_calls = 0

\* POST /admin, main.py:163-194.
AdminEndpoint(user_id, action) ==
    /\ pc = "serving"
    /\ service_calls < MaxRequests
    /\ IF ~agent_available
       THEN /\ admin_log' = admin_log
            /\ http_status' = 200
       ELSE IF ~VerifyAdminAccess(user_id)
       THEN /\ admin_log' = admin_log
            /\ http_status' = 403
       ELSE /\ admin_log' = Append(admin_log, AdminCall("/admin", action, user_id, TRUE))
            /\ http_status' = 200
    /\ service_calls' = service_calls + 1
    /\ UNCHANGED <<episodic_memory, semantic_memory, memory_file, manager_config,
                   import_outcome, agent_available, pc, atRestVars>>

\* POST /config/update, main.py:354-380: the request has no user id, and the
\* agent is called with "system".
UpdateConfigEndpoint(updates) ==
    /\ pc = "serving"
    /\ service_calls < MaxRequests
    /\ admin_log' = IF agent_available
                    THEN Append(admin_log,
                                AdminCall("/config/update", updates, "system", FALSE))
                    ELSE admin_log
    /\ http_status' = 200
    /\ service_calls' = service_calls + 1
    /\ UNCHANGED <<episodic_memory, semantic_memory, memory_file, manager_config,
                   import_outcome, agent_available, pc, atRestVars>>

ServerNext ==
    \/ \E user_id \in RequestUsers, action \in {"status", "unload models"} :
         AdminEndpoint(user_id, action)
    \/ \E updates \in {"{}", "{\"debug\": false}"} : UpdateConfigEndpoint(updates)

SpecServer == ServerInit /\ [][ServerNext]_vars

\* ------------------------------------------------------------- properties

\* The step ids a plan declares, and its dependency edges (step -> needed step).
DeclaredIds(p) ==
    {p.execution_steps[i].step :
        i \in {j \in 1..Len(p.execution_steps) : p.execution_steps[j].kind = "dict"}}

Edges(p) ==
    UNION {{<<p.execution_steps[i].step, d>> : d \in p.execution_steps[i].depends_on} :
             i \in 1..Len(p.execution_steps)}

Successors(E, S) == {e[2] : e \in {f \in E : f[1] \in S}}

RECURSIVE ReachableIn(_, _, _)
ReachableIn(E, S, n) ==
    IF n = 0 THEN S ELSE ReachableIn(E, S \cup Successors(E, S), n - 1)

DependsOnExisting(p) == \A e \in Edges(p) : e[2] \in DeclaredIds(p)

HasCycle(p) ==
    \E x \in DeclaredIds(p) :
        x \in ReachableIn(Edges(p), Successors(Edges(p), {x}), Len(p.execution_steps))

Completed == execution_results.steps_completed

StepOf(r) == plan.execution_steps[r.pos]

\* C1: the plan that plan parsing hands to execution has an acyclic
\* dependency graph and every depends_on entry names a step of the plan.
C1_ParsedPlanIsDag ==
    (pc = "planned" /\ via = "process_input")
        => (DependsOnExisting(plan) /\ ~HasCycle(plan))

\* The text has no "{" with a "}" somewhere after it.
NoBracePayload(s) ==
    ~\E i \in 1..Len(s), j \in 1..Len(s) : i < j /\ s[i] = "{" /\ s[j] = "}"

\* The text from the first "{" to the last "}" is not one JSON object.
UndecodablePayload(s) ==
    /\ ~NoBracePayload(s)
    /\ LET i == Min({k \in 1..Len(s) : s[k] = "{"})
           j == Max({k \in 1..Len(s) : s[k] = "}"})
       IN ~(j = i + 1 \/ (j = i + 2 /\ s[i + 1] = "m"))

\* C2: on a text without a brace-delimited payload, or whose payload does not
\* decode, parse_execution_plan returns exactly the fallback plan.
C2_ParseFallsBack ==
    (pc = "parsed" /\ (NoBracePayload(response) \/ UndecodablePayload(response)))
        => /\ plan.intent = "Respond to user request"
           /\ plan.complexity = "simple"
           /\ plan.primary_capability = "text"
           /\ plan.confidence = "0.5"
           /\ Len(plan.execution_steps) = 1
           /\ plan.execution_steps[1].kind = "dict"
           /\ plan.execution_steps[1].step = 1
           /\ plan.execution_steps[1].action = "Generate helpful response"
           /\ plan.execution_steps[1].capability = "text"
           /\ plan.execution_steps[1].tool = NoTool
           /\ plan.execution_steps[1].depends_on = {}

\* C2's case: a text with a payload that does not decode has been parsed.
C2_Witness ==
    /\ pc = "parsed"
    /\ UndecodablePayload(response)
    /\ \E i \in 1..Len(response) : response[i] = "m"
    /\ plan.confidence = "0.5"

\* A plan whose entries are steps with distinct ids and whose dependencies
\* form a DAG over them.
WellFormedPlan(p) ==
    /\ \A i \in 1..Len(p.execution_steps) : p.execution_steps[i].kind = "dict"
    /\ Cardinality(DeclaredIds(p)) = Len(p.execution_steps)
    /\ DependsOnExisting(p)
    /\ ~HasCycle(p)

\* C3: every step runs after the steps it depends on, and among the steps
\* ready at the same time the one with the smallest id runs first.
C3_TopologicalOrder ==
    WellFormedPlan(plan) =>
        \A k \in 1..Len(Completed) :
            LET done == {Completed[j].step_number : j \in 1..(k - 1)}
                s == StepOf(Completed[k])
            IN /\ s.depends_on \subseteq done
               /\ \A i \in 1..Len(plan.execution_steps) :
                    LET t == plan.execution_steps[i] IN
                    (t.step \notin done /\ t.depends_on \subseteq done)
                        => s.step <= t.step

\* The entry at position i was attempted and failed: its result is recorded
\* with success=false, or it is the entry whose exception ended the loop.
FailedAt(i) ==
    \/ \E k \in 1..Len(Completed) : Completed[k].pos = i /\ ~Completed[k].success
    \/ (execution_results.error /\ idx = i)

\* The entry at position j was attempted: execute_step was called on it.
AttemptedAt(j) ==
    \/ \E k \in 1..Len(Completed) : Completed[k].pos = j
    \/ (execution_results.error /\ idx = j)

\* C4: when execute_plan has returned, every entry listed after a failed one
\* has been attempted, whether or not it depends on the failed one.
C4_BestEffortContinuation ==
    pc \in {"executed", "returned"}
        => \A i \in 1..Len(plan.execution_steps), j \in 1..Len(plan.execution_steps) :
             (i < j /\ FailedAt(i)) => AttemptedAt(j)

\* The capability's provider could not be acquired for the plan: it is
\* disabled by configuration, or load_required_models asked for it and the
\* load returned nothing.
CannotAcquire(c) ==
    \/ c \notin config
    \/ (c = plan.primary_capability /\ c \notin DOMAIN required_models)

\* C5: a step without a tool whose capability's provider cannot be acquired
\* is recorded with success=false and an error.
C5_UnavailableProviderFails ==
    \A k \in 1..Len(Completed) :
        LET s == StepOf(Completed[k]) IN
        (s.tool = NoTool /\ s.capability = "vision" /\ CannotAcquire("vision"))
            => (~Completed[k].success /\ Completed[k].error)

\* C6: the record's success flag is true iff every recorded step result has
\* success=true.
C6_OverallSuccessIff ==
    pc \in {"executed", "returned"}
        => (execution_results.success
              <=> \A k \in 1..Len(Completed) : Completed[k].success)

\* C7: after execute_plan returns, every entry of the plan has exactly one
\* step result.
C7_OneResultPerStep ==
    pc \in {"executed", "returned"}
        => /\ Len(Completed) = Len(plan.execution_steps)
           /\ \A i \in 1..Len(plan.execution_steps) :
                Cardinality({k \in 1..Len(Completed) : Completed[k].pos = i}) = 1

\* C8: callers that acquired the same id while it was not active caused one
\* construction and all hold the handle stored in the active set.
C8_LoadCoalescing ==
    \A m \in ModelNames :
        LET cs == {c \in Callers : got[c].model = m} IN
        (built[m] > 0 /\ Cardinality(cs) >= 2)
            => /\ built[m] = 1
               /\ m \in Active(loaded_models)
               /\ \A c \in cs : got[c].handle = loaded_models[m]

\* C9: right after unload_unused_models(keep), every active id is in keep or
\* hard-pinned.
C9_PinningBound ==
    last_op = "unload" => Active(loaded_models) \subseteq (last_keep \cup HardPinned)

\* C9's case: a release with a non-empty keep list that evicted one provider
\* and kept another.
C9_Witness ==
    /\ last_op = "unload"
    /\ last_keep # {}
    /\ pre_loaded \ Active(loaded_models) # {}
    /\ Active(loaded_models) # {}

\* C10: a release never evicts the main brain, whatever keep list it is given.
C10_HardPinNeverEvicted ==
    (last_op = "unload" /\ MainBrain \in pre_loaded)
        => MainBrain \in Active(loaded_models)

\* C11: load_model of an id that is already active returns the stored handle,
\* constructs nothing and leaves loaded_models as it was, however often the
\* call is repeated.
C11_AcquireActiveIsIdempotent ==
    [][(last_op' = "load" /\ last_call'.model \in Active(loaded_models))
         => /\ loaded_models' = loaded_models
            /\ builds' = builds
            /\ last_call'.ret = loaded_models[last_call'.model]
            /\ \A c \in Callers :
                 c = last_call'.caller => got'[c].handle = loaded_models[got'[c].model]]_vars

\* C11's case: a caller acquired an id that another caller had made active
\* and holds the same handle.
C11_Witness ==
    /\ last_op = "load"
    /\ last_call.model \in pre_loaded
    /\ built[last_call.model] = 1
    /\ \E c \in Callers, d \in Callers :
         /\ c # d
         /\ c = last_call.caller
         /\ got[d].model = last_call.model
         /\ got[c].handle = got[d].handle
         /\ got[c].handle # None

\* C12: a load_model call for a disabled id, or one whose construction gives
\* nothing, returns None and leaves loaded_models exactly as it was.
C12_FailedAcquireLeavesActiveSet ==
    [][(last_op' = "load" /\ last_call'.model \notin Active(loaded_models)
          /\ (last_call'.model \notin config \/ last_call'.outcome = "failed"))
         => /\ last_call'.ret = None
            /\ loaded_models' = loaded_models]_vars

\* C12's case: a construction was run for an enabled id, failed, and the
\* caller holds None while another provider stays active.
C12_Witness ==
    /\ last_op = "load"
    /\ last_call.outcome = "failed"
    /\ last_call.model \in config
    /\ built[last_call.model] > 0
    /\ last_call.caller \in Callers
    /\ got[last_call.caller].handle = None
    /\ Active(loaded_models) # {}

\* C13 as it is stated: release(keep) removes every active provider whose id
\* is not in keep, keeps the others with their handles, and adds none.
C13_ReleaseFrameAsStated ==
    [][last_op' = "unload"
         => /\ Active(loaded_models') = Active(loaded_models) \cap last_keep'
            /\ \A m \in Active(loaded_models') : loaded_models'[m] = loaded_models[m]]_vars

\* C13: unload_unused_models(keep) removes every active provider whose id is
\* not in the effective keep list (keep itself, or deepseek-r1 alone when keep
\* is empty or missing), leaves the others active with their handles
\* unchanged, and adds no provider.
C13_ReleaseFrame ==
    [][last_op' = "unload"
         => LET eff == IF last_keep' = {} THEN {"deepseek-r1"} ELSE last_keep' IN
            /\ Active(loaded_models') = Active(loaded_models) \cap eff
            /\ \A m \in Active(loaded_models') : loaded_models'[m] = loaded_models[m]]_vars

\* C13's case: a release whose keep list names an id that is not active, with
\* one provider evicted and one kept.
C13_Witness ==
    /\ last_op = "unload"
    /\ last_keep \ pre_loaded # {}
    /\ pre_loaded \ Active(loaded_models) # {}
    /\ Active(loaded_models) \cap last_keep # {}
    /\ Active(loaded_models) \subseteq pre_loaded

\* C14: the keep list of the release after a plan is the hard-pinned ids for
\* a plan that is not complex, and for a complex plan also embedding and the
\* plan's primary capability, whose provider is then still active.
C14_KeepSetByComplexity ==
    (pc \in {"executed", "returned"} /\ last_op = "unload")
        => /\ last_keep = HardPinned \cup
                 (IF plan.complexity = "complex"
                  THEN {"embedding", plan.primary_capability} ELSE {})
           /\ (plan.complexity = "complex" /\ plan.primary_capability \in pre_loaded)
                 => plan.primary_capability \in Active(loaded_models)

\* How far the turn has got: 1 Received, 2 Planned, 3 Executed, 4 Responded,
\* 5 Recorded, 6 returned.
PhaseRank(p, i, steps) ==
    CASE p = "idle" -> 0
      [] p = "received" -> 1
      [] p = "planned" -> 2
      [] p = "steps" -> IF i <= Len(steps) THEN 2 ELSE 3
      [] p = "except" -> 3
      [] p \in {"cleanup", "executed"} -> 4
      [] p = "recorded" -> 5
      [] p = "returned" -> 6
      [] OTHER -> 7

\* C15: a turn goes through Received, Planned, Executed, Responded, Recorded
\* in this order, one phase at a time; the only other way is the shortcut to
\* the apology, which ends the turn.
C15_PhasesInOrder ==
    [][\/ pc' = "apology"
       \/ (pc = "apology" /\ pc' = "returned")
       \/ /\ pc # "apology"
          /\ PhaseRank(pc', idx', plan'.execution_steps)
               \in {PhaseRank(pc, idx, plan.execution_steps),
                    PhaseRank(pc, idx, plan.execution_steps) + 1}]_vars

\* C15's case: a turn that executed steps has been recorded and returned.
C15_Witness ==
    /\ pc = "returned"
    /\ turn_result.success
    /\ Len(conversation_history) = 1
    /\ Len(Completed) = 2

\* C16: whatever process_input returns carries a non-empty response.
C16_NeverUnanswered ==
    pc = "returned" => (turn_result.returned /\ turn_result.response # "")

\* C16's case: the turn returned through the apology after execute_plan's own
\* handler failed.
C16_Witness ==
    /\ pc = "returned"
    /\ execution_results.error
    /\ execution_results.response = ""
    /\ turn_result.response # ""

\* C17: a turn given a proper input returns success=true whatever failed in
\* planning, loading or execution; success=false comes only with the error
\* and the apology, after a fault that escaped the local handlers.
C17_NoFatalFailure ==
    pc = "returned"
        => /\ user_input = "str" => (turn_result.success /\ ~turn_result.error)
           /\ ~turn_result.success
                 => /\ turn_result.error
                    /\ turn_result.response = "apology"
                    /\ (PlanningRaises(user_input) \/ FallbackResponseRaises(user_input))

\* C17's case: execute_plan failed, a load failed and the plan was the
\* fallback plan, and the turn still returned success=true.
C17_Witness ==
    /\ pc = "returned"
    /\ turn_result.success
    /\ execution_results.error
    /\ ~execution_results.success

\* C18: every turn reaches its terminal state and returns, also when an
\* external call it makes never returns.
C18_TurnTerminates == <>(pc = "returned")

\* The positions execute_plan visits for a plan, as the plan alone fixes
\* them: the entries in list order, up to the first one that is no step.
VisitsOf(p) ==
    LET bad == {i \in 1..Len(p.execution_steps) : p.execution_steps[i].kind # "dict"}
    IN IF bad = {} THEN Len(p.execution_steps) ELSE Min(bad) - 1

\* C19: the order in which execute_plan visits the steps and records their
\* results is fixed by the plan alone: the same for every state of the
\* loader and every configuration.
C19_DeterministicOrder ==
    /\ \A k \in 1..Len(Completed) :
         /\ Completed[k].pos = k
         /\ Completed[k].step_number = plan.execution_steps[k].step
    /\ pc \in {"cleanup", "executed", "returned"} => Len(Completed) = VisitsOf(plan)

\* C19's case: a plan of two steps, the first a vision step, was executed
\* while no vision model could be loaded and another model was active.
C19_Witness ==
    /\ pc = "executed"
    /\ Len(plan.execution_steps) = 2
    /\ plan.execution_steps[1].capability = "vision"
    /\ plan.execution_steps[1].tool = NoTool
    /\ "vision" \notin DOMAIN required_models
    /\ Active(loaded_models) # {}
    /\ Len(Completed) = 2

\* The table order of the capabilities, as the claim gives it.
TableOrder ==
    <<"vision", "speech_input", "speech_output", "video", "document",
      "audio_generation", "embedding">>

\* The positions in the table order of the capabilities with a keyword in
\* the response.
MatchingPositions(words) ==
    {i \in 1..Len(TableOrder) :
        \E j \in 1..Len(CapabilityTable) :
            /\ CapabilityTable[j].name = TableOrder[i]
            /\ \E kw \in CapabilityTable[j].keywords : Occurs(words, kw)}

PositionOf(name) == CHOOSE i \in 1..Len(TableOrder) : TableOrder[i] = name

\* No JSON object can be decoded from the response.
NoTaskPayload(r) ==
    NoBracePayload(r.tokens) \/ UndecodablePayload(r.tokens)

\* C20: on a response without a decodable payload that has keywords of some
\* capability, the first matching capability in table order is the primary
\* one, the other matching ones are the additional ones in table order, and
\* the confidence is 0.7.
C20_KeywordClassification ==
    (pc = "classified" /\ NoTaskPayload(task_response)
       /\ MatchingPositions(task_response.words) # {})
        => LET pos == MatchingPositions(task_response.words)
               add == task_plan.additional_capabilities
           IN /\ task_plan.primary_capability = TableOrder[Min(pos)]
              /\ Len(add) = Cardinality(pos) - 1
              /\ {add[k] : k \in 1..Len(add)} = {TableOrder[i] : i \in pos \ {Min(pos)}}
              /\ \A k \in 1..Len(add), l \in 1..Len(add) :
                    k < l => PositionOf(add[k]) < PositionOf(add[l])
              /\ task_plan.confidence = "0.7"

\* C20's case: a response whose braces do not decode and whose keywords
\* match three capabilities or more.
C20_Witness ==
    /\ pc = "classified"
    /\ UndecodablePayload(task_response.tokens)
    /\ Len(task_plan.additional_capabilities) >= 2
    /\ task_plan.confidence = "0.7"

\* The fields of the plain fallback plan that a classification result can
\* be compared with.
IsPlainFallbackPlan(tp) ==
    /\ tp.primary_capability = FallbackPlan.primary_capability
    /\ tp.additional_capabilities = FallbackPlan.additional_capabilities
    /\ "execution_steps" \in DOMAIN tp
    /\ tp.confidence = FallbackPlan.confidence

\* C21: on a response without a decodable payload and without a keyword of
\* any capability, the classification result is the plain fallback plan:
\* primary capability text, no additional capabilities, the single text
\* step, confidence 0.5.
C21_NoMatchGivesFallbackPlan ==
    (pc = "classified" /\ NoTaskPayload(task_response)
       /\ MatchingPositions(task_response.words) = {})
        => IsPlainFallbackPlan(task_plan)

\* A tool id whose invocation fails: no tool of that name, or a tool that
\* raises.
ToolFails(tool) == tool \notin RegisteredTools \/ tool \in RaisingTools

\* C22: a step whose tool is unknown or raises is recovered inside the step:
\* the step result is recorded with the error string as its output ("not
\* found" for an unknown tool, the error text for a tool that raises), nothing
\* is raised, and the loop goes on to the next step.
C22_ToolFailuresRecovered ==
    [][ (/\ pc = "steps"
         /\ idx <= Len(plan.execution_steps)
         /\ plan.execution_steps[idx].kind = "dict"
         /\ plan.execution_steps[idx].tool # NoTool
         /\ ToolFails(plan.execution_steps[idx].tool))
        => LET tool == plan.execution_steps[idx].tool
               done == execution_results'.steps_completed
           IN /\ Len(done) = Len(execution_results.steps_completed) + 1
              /\ done[Len(done)].pos = idx
              /\ done[Len(done)].result =
                   (IF tool \in RegisteredTools THEN "Error using tool"
                    ELSE "Tool not found")
              /\ done[Len(done)].tool_used = tool
              /\ pc' = "steps"
              /\ idx' = idx + 1 ]_vars

\* C22's case: a plan whose first step names an unknown tool and whose second
\* step names a tool that raises was executed to its end.
C22_Witness ==
    /\ pc = "executed"
    /\ ~execution_results.error
    /\ Len(execution_results.steps_completed) = 2
    /\ plan.execution_steps[1].tool \notin RegisteredTools \cup {NoTool}
    /\ plan.execution_steps[2].tool \in RaisingTools
    /\ execution_results.steps_completed[1].result = "Tool not found"
    /\ execution_results.steps_completed[2].result = "Error using tool"

\* C23: a turn in which the write of the interaction to the memory store
\* failed returns what it returns when the write goes through: success, with
\* the response of execute_plan's record, and no error.
C23_RecordingFailureNotSurfaced ==
    (pc = "returned" /\ store_outcome = "failed")
        => turn_result = [success |-> TRUE,
                          response |-> execution_results.response,
                          error |-> FALSE, returned |-> TRUE]

\* C23's case: the steps were executed, the reply was synthesized, the write
\* failed and process_input has returned.
C23_Witness ==
    /\ pc = "returned"
    /\ store_outcome = "failed"
    /\ Len(execution_results.steps_completed) > 0
    /\ turn_result.response = "final response"
    /\ turn_result.success

\* C24: the conversation history the agent holds never has more entries than
\* the cap.
C24_HistoryBounded == Len(conversation_history) <= HistoryCap

\* The step result at place k of the record is that of a step without a tool
\* whose capability is c.
PlainStepOf(k, c) ==
    /\ StepOf(Completed[k]).kind = "dict"
    /\ StepOf(Completed[k]).tool = NoTool
    /\ StepOf(Completed[k]).capability = c

\* C27: while the steps of a plan are executed and the vision model is
\* active in the loader, so that load_model("vision") returns it, a vision
\* step without a tool is handled with a vision model, whatever the plan's
\* primary and additional capabilities are.
C27_StepGetsOwnProvider ==
    (pc = "steps" /\ "vision" \in Active(loaded_models))
        => \A k \in 1..Len(Completed) :
              PlainStepOf(k, "vision")
                  => Completed[k].result # "Vision capability not available"

\* C28: when execute_plan has returned in a turn in which it loaded models,
\* the last call made on the loader is the release of cleanup_models, on
\* the failure path as on the success path.
C28_ReleasedOnEveryPath ==
    (pc \in {"executed", "recorded", "returned"} /\ required_models # <<>>)
        => last_op = "unload"

\* The tool ids of the plan's steps that have a tool.
ToolsOfPlan ==
    {plan.execution_steps[i].tool :
        i \in {j \in 1..Len(plan.execution_steps) :
                   /\ plan.execution_steps[j].kind = "dict"
                   /\ plan.execution_steps[j].tool # NoTool}}

\* C29: when every step of a plan has been executed, each step that has a
\* tool was executed by that tool and names it as the tool used, and the
\* tools used of the record are the tool ids of those steps, each once.
C29_ToolsUsedIsSet ==
    (pc \in {"cleanup", "executed", "recorded", "returned"} /\ ~execution_results.error)
        => /\ \A k \in 1..Len(Completed) :
                StepOf(Completed[k]).tool # NoTool
                    => /\ Completed[k].tool_used = StepOf(Completed[k]).tool
                       /\ Completed[k].result \in
                            {"tool text", "Tool not found", "Error using tool"}
           /\ LET used == execution_results.tools_used IN
              /\ {used[i] : i \in 1..Len(used)} = ToolsOfPlan
              /\ Len(used) = Cardinality(ToolsOfPlan)

\* C30: the step numbers of the step results of a plan are pairwise
\* distinct, and a step without an id has its position as step number.
C30_StepIdsUnique ==
    /\ \A k \in 1..Len(Completed), l \in 1..Len(Completed) :
          k # l => Completed[k].step_number # Completed[l].step_number
    /\ \A k \in 1..Len(Completed) :
          StepOf(Completed[k]).step = DefaultStepNumber
              => Completed[k].step_number = Completed[k].pos

\* C25: as long as the steps of a plan are being executed, every model that
\* load_required_models loaded for the plan is active in the loader, whatever
\* the other turns release in the meantime.
C25_LoadedStaysActive ==
    pc \in {"steps", "awaiting"}
        => \A m \in DOMAIN required_models : m \in Active(loaded_models)

\* The model whose constructor the turn is in.
Constructing == RequiredCapabilities(plan)[1]

\* C26: while the turn is in the constructor of one model, another turn's
\* load_model call for a different model can be made and return.
C26_AcquiresNotSerialized ==
    pc = "loading"
        => ENABLED (\E c \in Callers : \E m \in ModelNames \ {Constructing} :
                       \E ok \in BOOLEAN : OtherTurnLoads(c, m, ok))

\* C33: once a turn has planned, its planning window is the last min(5, n)
\* entries of the agent's one history of n entries, in their order, whatever
\* user ids they carry.
C33_WindowSpansAllUsers ==
    pc \in {"apology", "returned"}
        => LET n == Len(conversation_history)
               w == IF n < HistoryCap THEN n ELSE HistoryCap
           IN /\ Len(recent_history) = w
              /\ \A i \in 1..w : recent_history[i] = conversation_history[n - w + i]

\* C33's case: the history has more than five entries and the window of
\* alice's turn holds entries of the user default.
C33_Witness ==
    /\ pc = "apology"
    /\ Len(conversation_history) > HistoryCap
    /\ CurrentUser = "alice"
    /\ \E i \in 1..Len(recent_history) : recent_history[i].user_id = DefaultUser
    /\ recent_history[1] # conversation_history[1]

\* C31: from the call of execute_plan to its return, through loading, every
\* step, synthesis and cleanup, no step changes the plan or any of its steps.
C31_PlanNeverMutated ==
    [][(pc \in {"planned", "steps", "cleanup", "except"}) => (plan' = plan)]_vars

\* C31's case: a plan of two steps, one with a tool, has gone through
\* loading, both steps, synthesis and cleanup.
C31_Witness ==
    /\ pc = "executed"
    /\ last_op = "unload"
    /\ required_models # <<>>
    /\ Len(plan.execution_steps) = 2
    /\ Len(execution_results.steps_completed) = 2
    /\ execution_results.tools_used # <<>>
    /\ execution_results.response = "final response"

\* Synthesis was reached and failed: every entry was passed and the record
\* has the error.
SynthesisFailed ==
    /\ pc \in {"executed", "recorded", "returned"}
    /\ execution_results.error
    /\ idx > Len(plan.execution_steps)

\* C32: when synthesis fails, the response of the record is the fallback
\* response made from the user input, and the record keeps the step results
\* of all the steps executed before, in their order.
C32_SynthesisFailureKeepsResults ==
    SynthesisFailed
        => /\ execution_results.response = "fallback response"
           /\ Len(execution_results.steps_completed) = Len(plan.execution_steps)
           /\ \A k \in 1..Len(execution_results.steps_completed) :
                 execution_results.steps_completed[k].pos = k

\* C32's case: two steps were executed, one by a tool, and synthesis failed.
C32_Witness ==
    /\ SynthesisFailed
    /\ Len(execution_results.steps_completed) = 2
    /\ execution_results.tools_used # <<>>
    /\ ~execution_results.success

\* C35: no load_model and no unload_unused_models call changes a main-brain
\* handle that is set, so the status keeps reporting the main brain active.
C35_MainBrainHandleStays ==
    [][MainBrainActive => (main_brain' = main_brain /\ MainBrainActive')]_vars

\* C35's case: an unload has removed the main brain's id from loaded_models
\* and the status still reports the main brain active.
C35_Witness ==
    /\ last_op = "unload"
    /\ MainBrain \in pre_loaded
    /\ MainBrain \notin Active(loaded_models)
    /\ MainBrainActive

\* C36: an unload called with an empty keep list leaves of the loaded models
\* exactly the main brain's, with its handle, as an unload keeping
\* ["deepseek-r1"] does.
C36_EmptyKeepKeepsMainBrain ==
    [][(last_op' = "unload" /\ last_keep' = {})
          => /\ Active(loaded_models') = Active(loaded_models) \cap {MainBrain}
             /\ \A m \in Active(loaded_models') : loaded_models'[m] = loaded_models[m]]_vars

\* C36's case: an unload with an empty keep list found the main brain and
\* another model loaded, and the main brain is still loaded after it.
C36_Witness ==
    /\ last_op = "unload"
    /\ last_keep = {}
    /\ MainBrain \in pre_loaded
    /\ pre_loaded # {MainBrain}
    /\ Active(loaded_models) = {MainBrain}

\* C34: after a store_interaction the episodic memory holds at most 1000
\* interactions: the ones it held and the one stored, in that order, less
\* the oldest ones beyond 1000, whatever its length before.
C34_EpisodicKeepsLatest ==
    [][service_calls' # service_calls
          => /\ Len(episodic_memory') <= EpisodicCap
             /\ \E interaction \in Interactions :
                  LET all == Append(episodic_memory, Stamped(interaction))
                      n == Len(episodic_memory')
                  IN /\ n = IF Len(all) < EpisodicCap THEN Len(all) ELSE EpisodicCap
                     /\ \A i \in 1..n : episodic_memory'[i] = all[Len(all) - n + i]]_vars

\* C34's case: stores on a memory loaded longer than the cap; the oldest
\* loaded interactions are gone and the stored ones are the last.
C34_Witness ==
    /\ service_calls = 2
    /\ Len(memory_file) >= EpisodicCap
    /\ Len(episodic_memory) = EpisodicCap
    /\ episodic_memory[1].message = ToString(SaveEvery + 3)
    /\ episodic_memory[EpisodicCap].message \in Messages
    /\ episodic_memory[EpisodicCap - 1].message \in Messages

\* The import cannot succeed: the data cannot be decoded, or the decoded
\* configuration fails a validator.
ImportRejected(data) == ~Decodes(data) \/ ~ConfigPasses(data.value)

\* C37: an import_config whose data cannot be decoded or whose configuration
\* fails validation leaves the configuration as it was before the call and
\* returns without an exception.
C37_ImportAllOrNothing ==
    [][(service_calls' # service_calls /\ ImportRejected(import_outcome'.data))
          => /\ manager_config' = manager_config
             /\ import_outcome'.ended = "returned"]_vars

\* C38: every process_admin_request call the server has made came after
\* verify_admin_access was passed for the user id of the request.
C38_AdminGated ==
    \A i \in 1..Len(admin_log) :
        /\ admin_log[i].verified
        /\ VerifyAdminAccess(admin_log[i].user_id)

====
